---- MODULE Spec2Model ----
(***************************************************************************)
(* Model of WriteBufVec (src/src/lib.rs): a writer that buffers the bytes  *)
(* handed to write() in a Vec<u8> and forwards them to the wrapped writer  *)
(* with one write call per flush.                                          *)
(*                                                                         *)
(* Byte sequences (Vec<u8>, &[u8]) are held run-length encoded: a sequence *)
(* of runs [b |-> byte, n |-> count] with n > 0 and no two adjacent runs   *)
(* of the same byte.  Every byte sequence has exactly one such encoding,   *)
(* so equality of encodings is equality of byte sequences, and the 1 MiB   *)
(* threshold of the source is kept at its real value.                      *)
(***************************************************************************)
EXTENDS Integers, Sequences, FiniteSets, TLC

VARIABLES
    len,        \* WriteBufVec.len
    buf,        \* WriteBufVec.buf
    writer,     \* WriteBufVec.writer: the bytes the wrapped writer accepted
    written,    \* history: the chunks of the write calls that returned Ok
    attempted,  \* history: total length of the chunks passed to write
    sinkCalls,  \* history: number of write calls made on the wrapped writer
    sinkFlushCalls, \* history: number of flush calls made on the wrapped writer
    sinkFull,   \* history: every such call so far returned Ok(all bytes)
    sinkShort,  \* history: some such call returned Ok(k) for fewer bytes
    lossy,      \* history: some write replaced a buffer the sink took short
    sinceLoss,  \* history: the chunks written Ok since the last such write
    dropped,    \* the writer has been dropped
    flushes,    \* history: number of explicit flush calls
    ops,        \* history: number of write and flush calls
    last,       \* history: the last call (see Call)
    prev        \* history: the call before the last

vars == <<len, buf, writer, written, attempted, sinkCalls, sinkFlushCalls,
          sinkFull, sinkShort, lossy, sinceLoss, dropped, flushes, ops,
          last, prev>>

\* The threshold of write(): 1024 * 1024.
Capacity == 1048576

\* Number of write/flush calls in one behaviour.
MaxOps == 3

(***************************************************************************)
(* Byte sequences.                                                         *)
(***************************************************************************)
\* n copies of byte b.
Rep(b, n) == IF n = 0 THEN << >> ELSE << [b |-> b, n |-> n] >>

RECURSIVE BLen(_)
\* slice.len() / Vec::len(): the number of bytes.
BLen(s) == IF s = << >> THEN 0 ELSE Head(s).n + BLen(Tail(s))

\* Vec::extend_from_slice: s followed by t.
Cat(s, t) ==
    IF s = << >> THEN t
    ELSE IF t = << >> THEN s
    ELSE IF s[Len(s)].b = Head(t).b
         THEN SubSeq(s, 1, Len(s) - 1)
              \o << [b |-> Head(t).b, n |-> s[Len(s)].n + Head(t).n] >>
              \o Tail(t)
         ELSE s \o t

RECURSIVE Take(_, _)
\* The first k bytes of s (the part of a slice a sink accepts).
Take(s, k) ==
    IF k <= 0 \/ s = << >> THEN << >>
    ELSE IF Head(s).n <= k
         THEN << Head(s) >> \o Take(Tail(s), k - Head(s).n)
         ELSE << [b |-> Head(s).b, n |-> k] >>

RECURSIVE Drop(_, _)
\* s without its first k bytes.
Drop(s, k) ==
    IF k <= 0 \/ s = << >> THEN s
    ELSE IF Head(s).n <= k
         THEN Drop(Tail(s), k - Head(s).n)
         ELSE << [b |-> Head(s).b, n |-> Head(s).n - k] >> \o Tail(s)

\* s is a final part of t.
IsSuffix(s, t) == BLen(s) <= BLen(t) /\ Drop(t, BLen(t) - BLen(s)) = s

\* s is an initial part of t.
IsPrefix(s, t) == BLen(s) <= BLen(t) /\ Take(t, BLen(s)) = s

(***************************************************************************)
(* Inputs.                                                                 *)
(***************************************************************************)
Bytes == {1, 2}

ChunkLens == {1, 1000, 1048000, Capacity - 1, Capacity, Capacity + 1}

\* The slices passed to write(): the empty slice, [1,2,3], and runs of one
\* byte of the lengths above.
Chunks ==
    { << >>, Cat(Cat(Rep(1, 1), Rep(2, 1)), Rep(3, 1)) }
    \cup { Rep(b, n) : b \in Bytes, n \in ChunkLens }

\* Outcome of the wrapped writer's write(data): Err(e), or Ok(k), k <= n.
SinkErr == [ok |-> FALSE, n |-> 0]
SinkOk(k) == [ok |-> TRUE, n |-> k]

\* Short counts a sink may report for n bytes.
ShortCounts(n) == { k \in {0, n - 1} : k >= 0 /\ k < n }

SinkOutcomes(data) ==
    {SinkErr, SinkOk(BLen(data))}
    \cup { SinkOk(k) : k \in ShortCounts(BLen(data)) }

\* The bytes the wrapped writer takes from data under outcome o.
Accepted(data, o) == IF o.ok THEN Take(data, o.n) ELSE << >>

\* No sink call was made.
NoCall == [ok |-> TRUE, n |-> 0]

(***************************************************************************)
(* WriteBufVec.                                                            *)
(***************************************************************************)
\* Variant: an empty chunk is always taken on the first branch.
AccumulatesEmptyChunk(n, l) == l = 0 \/ n + l < Capacity

\* Variant: the threshold taken one byte too low.
AccumulatesOffByOne(n, l) == n + l < Capacity - 1

\* Variant: the comparison written <= instead of <.
AccumulatesLe(n, l) == n + l <= Capacity

\* write(): if self.len + l < 1024 * 1024
Accumulates(n, l) == n + l < Capacity

\* Variant: self.len = l instead of self.len += l.
AccumulateLenAssign(n, l) == l

\* write(), first branch: self.len += l
AccumulateLen(n, l) == n + l

\* Variant: the chunk replaces the buffer instead of extending it.
AccumulateBufReplace(b, chunk) == chunk

\* write(), first branch: self.buf.extend_from_slice(buf)
AccumulateBuf(b, chunk) == Cat(b, chunk)

\* Variant: the stored chunk is cut down to the threshold.
OverflowBufTruncated(b, chunk) == Take(chunk, Capacity)

\* Variant: the self.buf.clear() is missing.
OverflowBufNoClear(b, chunk) == Cat(b, chunk)

\* write(), second branch: self.buf.clear(); self.buf.extend_from_slice(buf)
OverflowBuf(b, chunk) == Cat(<< >>, chunk)

\* Variant: self.len += l instead of self.len = l.
OverflowLenAdd(n, l) == n + l

\* write(), second branch: self.len = l
OverflowLen(n, l) == l

\* Variant: the count of the sink write is returned.
OverflowRetSinkCount(l, o) == o.n

\* write(), second branch: Ok(l), whatever the sink's count o.n was.
OverflowRet(l, o) == l

\* Variant: a sink write that takes nothing is an error (as in write_all).
FlushOkNonZero(o) == o.ok /\ o.n > 0

\* Variant: the result of the sink write is ignored (no `?`).
FlushOkAlways(o) == TRUE

\* flush(): self.writer.write(self.buf.as_slice())?; Ok(())  -- the count
\* of the sink is dropped, an error is passed on.
FlushOk(o) == o.ok

\* Variant: flush() also flushes the wrapped writer after a successful write.
FlushSinkFlushCallsAfterWrite(o) == IF o.ok THEN 1 ELSE 0

\* flush(): the number of self.writer.flush() calls made after the sink
\* write ended with o: the body holds none.
FlushSinkFlushCalls(o) == 0

\* Variant: flush() empties the buffer.
FlushBufClear(b) == << >>

\* flush() leaves self.buf as it is.
FlushBuf(b) == b

\* Variant: the buffer is replaced before the flush is attempted.
OverflowErrBufReplaced(b, chunk) == chunk

\* write(), second branch: self.flush()? returns before the buffer is
\* touched when the flush fails.
OverflowErrBuf(b, chunk) == b

\* Record of one call: its argument, the writer before it, the outcome o of
\* the sink write it made (if any), its result and the slices it passed to
\* the sink.
Call(op, chunk, o, ok, ret, calls) ==
    [op |-> op, chunk |-> chunk, l |-> BLen(chunk), pre_buf |-> buf,
     pre_len |-> len, pre_writer |-> writer, pre_sinkCalls |-> sinkCalls,
     out |-> o, ok |-> ok, ret |-> ret, calls |-> calls]

\* WriteBufVec::new(writer)
Init ==
    /\ len = 0
    /\ buf = << >>
    /\ writer = << >>
    /\ written = << >>
    /\ attempted = 0
    /\ sinkCalls = 0
    /\ sinkFlushCalls = 0
    /\ sinkFull = TRUE
    /\ sinkShort = FALSE
    /\ lossy = FALSE
    /\ dropped = FALSE
    /\ sinceLoss = << >>
    /\ flushes = 0
    /\ ops = 0
    /\ last = [op |-> "new", chunk |-> << >>, l |-> 0, pre_buf |-> << >>,
               pre_len |-> 0, pre_writer |-> << >>, pre_sinkCalls |-> 0,
               out |-> NoCall, ok |-> TRUE, ret |-> 0,
               calls |-> << >>]
    /\ prev = last

\* <WriteBufVec as Write>::write(buf)
Write ==
    /\ ~dropped
    /\ ops < MaxOps
    /\ \E chunk \in Chunks :
         LET l == BLen(chunk) IN
         IF Accumulates(len, l)
         THEN /\ len' = AccumulateLen(len, l)
              /\ buf' = AccumulateBuf(buf, chunk)
              /\ written' = Cat(written, chunk)
              /\ sinceLoss' = Cat(sinceLoss, chunk)
              /\ lossy' = lossy
              /\ last' = Call("write", chunk, NoCall, TRUE, l, << >>)
              /\ UNCHANGED <<writer, sinkCalls, sinkFlushCalls, sinkFull,
                             sinkShort>>
         ELSE \E o \in SinkOutcomes(buf) :
              /\ writer' = Cat(writer, Accepted(buf, o))
              /\ sinkCalls' = sinkCalls + 1
              /\ sinkFlushCalls' = sinkFlushCalls + FlushSinkFlushCalls(o)
              /\ sinkFull' = (sinkFull /\ o = SinkOk(BLen(buf)))
              /\ sinkShort' = (sinkShort \/ (o.ok /\ o.n < BLen(buf)))
              /\ IF FlushOk(o)
                 THEN /\ buf' = OverflowBuf(FlushBuf(buf), chunk)
                      /\ len' = OverflowLen(len, l)
                      /\ written' = Cat(written, chunk)
                      /\ lossy' = (lossy \/ o.n < BLen(buf))
                      /\ sinceLoss' = IF o.n < BLen(buf) THEN chunk
                                      ELSE Cat(sinceLoss, chunk)
                      /\ last' = Call("write", chunk, o, TRUE,
                                      OverflowRet(l, o), << buf >>)
                 ELSE /\ buf' = OverflowErrBuf(buf, chunk)
                      /\ len' = len
                      /\ written' = written
                      /\ UNCHANGED <<lossy, sinceLoss>>
                      /\ last' = Call("write", chunk, o, FALSE, 0, << buf >>)
    /\ attempted' = attempted + BLen(last'.chunk)
    /\ prev' = last
    /\ ops' = ops + 1
    /\ UNCHANGED <<flushes, dropped>>

\* <WriteBufVec as Write>::flush()
Flush ==
    /\ ~dropped
    /\ ops < MaxOps
    /\ \E o \in SinkOutcomes(buf) :
         /\ writer' = Cat(writer, Accepted(buf, o))
         /\ sinkCalls' = sinkCalls + 1
         /\ sinkFlushCalls' = sinkFlushCalls + FlushSinkFlushCalls(o)
         /\ sinkFull' = (sinkFull /\ o = SinkOk(BLen(buf)))
         /\ sinkShort' = (sinkShort \/ (o.ok /\ o.n < BLen(buf)))
         /\ buf' = FlushBuf(buf)
         /\ last' = Call("flush", << >>, o, FlushOk(o), 0, << buf >>)
    /\ prev' = last
    /\ ops' = ops + 1
    /\ flushes' = flushes + 1
    /\ UNCHANGED <<len, written, attempted, lossy, sinceLoss, dropped>>

\* Variant: the writer flushes its buffer when dropped (as BufWriter does).
DropSinkWritesFlush(b) == << b >>

\* The sink writes made when a WriteBufVec holding b is dropped: the type
\* has no Drop impl, so its fields are released and none is made.
DropSinkWrites(b) == << >>

\* drop(writer): the end of the writer's life, after any sequence of calls.
DropWriter ==
    /\ ~dropped
    /\ dropped' = TRUE
    /\ LET ws == DropSinkWrites(buf) IN
         /\ writer' = IF ws = << >> THEN writer ELSE Cat(writer, ws[1])
         /\ sinkCalls' = sinkCalls + Len(ws)
         /\ last' = Call("drop", << >>, NoCall, TRUE, 0, ws)
    /\ prev' = last
    /\ buf' = << >>
    /\ len' = 0
    /\ UNCHANGED <<written, attempted, sinkFlushCalls, sinkFull, sinkShort, lossy,
                   sinceLoss, flushes, ops>>

Next == Write \/ Flush \/ DropWriter

Spec == Init /\ [][Next]_vars

(***************************************************************************)
(* Properties.                                                             *)
(***************************************************************************)
\* The last call was a write that took the second (flush and replace) branch.
LastOverflow == last.op = "write" /\ last.calls # << >>

\* C1: while the sink accepts every write in full, the bytes the sink has
\* received are an initial part of the bytes of the successful writes, in
\* call order (nothing reordered, skipped or delivered twice).
C1_InOrderForwarding == sinkFull => IsPrefix(writer, written)

\* C2: after successful writes on a fresh writer followed by one successful
\* flush, with a sink accepting in full, the sink has received exactly the
\* written chunks in input order.
C2_EventualDelivery ==
    (sinkFull /\ last.op = "flush" /\ last.ok /\ flushes = 1)
        => writer = written

\* C2 witness: an overflow flush happened between the writes, and the final
\* flush completed the delivery.
C2_Witness ==
    /\ sinkFull /\ last.op = "flush" /\ last.ok /\ flushes = 1
    /\ sinkCalls = 2
    /\ BLen(written) >= Capacity
    /\ writer = written

\* C3: whenever a sequence of writes and flushes ends with a flush, with a
\* sink accepting in full, the sink has received exactly the concatenation of
\* the written chunks (what a buffered writer that empties its buffer on
\* flush delivers).
C3_DropInReplacement ==
    (sinkFull /\ last.op = "flush" /\ last.ok) => writer = written

\* C4: len() equals the number of bytes in the buffer, in every state.
C4_LenInvariant == len = BLen(buf)

\* C4 witness: a write failed on the second branch and the next write
\* succeeded on it, with a non-empty buffer.
C4_Witness ==
    /\ prev.op = "write" /\ ~prev.ok
    /\ LastOverflow /\ last.ok
    /\ len > 0 /\ len = BLen(buf)

\* C5: while only writes were made and their cumulative length is below
\* 1,048,576, len() is the running total and the sink has had no write call.
C5_Accumulation ==
    (~dropped /\ flushes = 0 /\ attempted < Capacity)
        => (len = attempted /\ sinkCalls = 0 /\ last.ok)

\* C5 witness: several writes totalling just under the threshold.
C5_Witness ==
    /\ ~dropped /\ flushes = 0 /\ ops >= 2 /\ prev.l > 0 /\ last.l > 0
    /\ attempted < Capacity /\ attempted >= 1048000
    /\ len = attempted /\ sinkCalls = 0

\* C6: a successful write of m bytes on a buffer of n bytes with
\* n + m >= 1,048,576 makes exactly one sink write, of the n buffered bytes,
\* and leaves exactly the m new bytes in the buffer, with len() = m.
C6_Overflow ==
    (last.op = "write" /\ last.ok
     /\ BLen(last.pre_buf) + last.l >= Capacity)
        => /\ last.calls = << last.pre_buf >>
           /\ buf = last.chunk
           /\ len = last.l

\* C6 witness: 1,048,000 bytes buffered, a 1,000-byte chunk written.
C6_Witness ==
    /\ last.op = "write" /\ last.ok
    /\ BLen(last.pre_buf) = 1048000 /\ last.l = 1000
    /\ last.calls = << last.pre_buf >>
    /\ len = 1000 /\ buf = last.chunk

\* C7: flush makes exactly one sink write, of the whole buffer, and a
\* successful flush leaves the buffer and len() as they were.
C7_FlushPassThrough ==
    last.op = "flush"
        => /\ last.calls = << last.pre_buf >>
           /\ last.ok => (buf = last.pre_buf /\ len = last.pre_len)

\* C7 witness: a successful flush of a non-empty buffer.
C7_Witness ==
    /\ last.op = "flush" /\ last.ok
    /\ BLen(last.pre_buf) = 3
    /\ last.calls = << last.pre_buf >>
    /\ buf = last.pre_buf /\ len = 3

\* C8: a write that returns Ok returns the length of its chunk, on either
\* branch and whatever count the sink reported.
C8_FullAcceptance ==
    (last.op = "write" /\ last.ok) => last.ret = BLen(last.chunk)

\* C8 witness: a write on the second branch whose sink write was short.
C8_Witness ==
    /\ LastOverflow /\ last.ok
    /\ last.out.n < BLen(last.pre_buf)
    /\ last.l > 0 /\ last.l # last.out.n
    /\ last.ret = last.l

\* C9: a sink error during the flush of the second branch is returned by
\* write, nothing reaches the sink, and the buffer and len() stay as before
\* the call; the same write repeated with the sink accepting in full then
\* passes the old content to the sink and stores the new chunk.
C9_ErrorNonCorruption ==
    /\ (LastOverflow /\ ~last.out.ok)
          => /\ ~last.ok
             /\ buf = last.pre_buf
             /\ len = last.pre_len
             /\ writer = last.pre_writer
    /\ (/\ prev.op = "write" /\ ~prev.ok
        /\ last.op = "write" /\ last.chunk = prev.chunk
        /\ last.out = SinkOk(BLen(last.pre_buf)))
          => /\ last.ok
             /\ last.calls = << prev.pre_buf >>
             /\ writer = Cat(last.pre_writer, prev.pre_buf)
             /\ buf = prev.chunk
             /\ len = prev.l

\* C9 witness: a write failed on a non-empty buffer and the same write,
\* repeated, succeeded.
C9_Witness ==
    /\ prev.op = "write" /\ ~prev.ok /\ prev.pre_buf # << >>
    /\ last.op = "write" /\ last.chunk = prev.chunk /\ last.ok
    /\ last.out = SinkOk(BLen(last.pre_buf))
    /\ writer = prev.pre_buf
    /\ buf = prev.chunk /\ buf # prev.pre_buf

\* C10: len() never exceeds 1,048,576.
C10_MaxCapacity == len <= Capacity

\* C11: a flush whose sink write fails returns the error and leaves the
\* buffer, len() and the sink as they were; the next flush passes the sink
\* the same bytes as the failed one.
C11_FlushRetrySafe ==
    /\ (last.op = "flush" /\ ~last.out.ok)
          => /\ ~last.ok
             /\ buf = last.pre_buf
             /\ len = last.pre_len
             /\ writer = last.pre_writer
    /\ (prev.op = "flush" /\ ~prev.ok /\ last.op = "flush")
          => last.calls = prev.calls

\* C11 witness: a flush of a non-empty buffer failed and the next flush
\* passed the same bytes and succeeded.
C11_Witness ==
    /\ prev.op = "flush" /\ ~prev.ok /\ prev.pre_buf # << >>
    /\ last.op = "flush" /\ last.ok
    /\ last.calls = << prev.pre_buf >>
    /\ writer = prev.pre_buf

\* C12: a write of m bytes on a buffer of n bytes appends without a sink
\* write exactly when n + m < 1,048,576, and flushes and replaces exactly
\* when n + m >= 1,048,576.
C12_ThresholdBoundary ==
    last.op = "write"
        => /\ (BLen(last.pre_buf) + last.l < Capacity)
                => /\ last.calls = << >>
                   /\ writer = last.pre_writer
                   /\ buf = Cat(last.pre_buf, last.chunk)
                   /\ len = last.pre_len + last.l
           /\ (BLen(last.pre_buf) + last.l >= Capacity)
                => /\ last.calls = << last.pre_buf >>
                   /\ last.ok => (buf = last.chunk /\ len = last.l)

\* C12 witness: n + m = 1,048,575 appended, then n + m = 1,048,576 exactly
\* flushed and replaced.
C12_Witness ==
    /\ prev.op = "write" /\ prev.l > 0
    /\ prev.pre_len + prev.l = Capacity - 1
    /\ prev.calls = << >>
    /\ last.op = "write" /\ last.ok
    /\ last.pre_len + last.l = Capacity
    /\ last.calls = << last.pre_buf >>
    /\ buf = last.chunk

\* C13: a write of one chunk of m >= 1,048,576 bytes whose flush succeeds
\* returns Ok, stores the chunk whole as the only buffer content with
\* len() = m, and passes the sink the old buffer only, none of the chunk.
C13_OversizedChunk ==
    (last.op = "write" /\ last.l >= Capacity /\ last.out.ok)
        => /\ last.ok /\ last.ret = last.l
           /\ buf = last.chunk
           /\ len = last.l
           /\ last.calls = << last.pre_buf >>
           /\ writer = Cat(last.pre_writer, Accepted(last.pre_buf, last.out))

\* C13 witness: a chunk longer than the threshold written on a non-empty
\* buffer of another byte; the sink got the old bytes only.
C13_Witness ==
    /\ last.op = "write" /\ last.ok /\ last.l > Capacity
    /\ last.pre_buf = Rep(1, 1000) /\ last.chunk = Rep(2, Capacity + 1)
    /\ writer = Rep(1, 1000)
    /\ buf = last.chunk /\ len = Capacity + 1

\* C14: the wrapped writer's flush is never called, and every flush of the
\* writer, explicit or made by write's second branch, is exactly one write
\* call on the wrapped writer; a write on the first branch makes none.
C14_SinkFlushNeverCalled ==
    /\ sinkFlushCalls = 0
    /\ last.op = "flush"
          => (Len(last.calls) = 1 /\ sinkCalls = last.pre_sinkCalls + 1)
    /\ (last.op = "write" /\ last.pre_len + last.l >= Capacity)
          => (Len(last.calls) = 1 /\ sinkCalls = last.pre_sinkCalls + 1)
    /\ (last.op = "write" /\ last.pre_len + last.l < Capacity)
          => (Len(last.calls) = 0 /\ sinkCalls = last.pre_sinkCalls)

\* C14 witness: an explicit flush after a write that flushed, both
\* successful: two sink writes, no sink flush.
C14_Witness ==
    /\ prev.op = "write" /\ prev.ok /\ Len(prev.calls) = 1
    /\ last.op = "flush" /\ last.ok
    /\ sinkCalls = 2 /\ sinkFlushCalls = 0

\* C15: when the sink takes only k < |B| bytes of a flushed buffer B and
\* returns Ok(k), flush returns Ok after that one sink write; when the flush
\* is the one of write's second branch, write returns Ok(m) and the buffer
\* becomes the new chunk, and from then on the buffer (all that is ever
\* passed to the sink) holds only bytes written since, so the |B| - k
\* bytes the sink did not take are never delivered.
C15_ShortWriteLosesData ==
    /\ (last.op = "flush" /\ last.out.ok /\ last.out.n < BLen(last.pre_buf))
          => /\ last.ok
             /\ last.calls = << last.pre_buf >>
             /\ sinkCalls = last.pre_sinkCalls + 1
             /\ writer = Cat(last.pre_writer, Take(last.pre_buf, last.out.n))
    /\ (LastOverflow /\ last.out.ok /\ last.out.n < BLen(last.pre_buf))
          => /\ last.ok /\ last.ret = last.l
             /\ last.calls = << last.pre_buf >>
             /\ sinkCalls = last.pre_sinkCalls + 1
             /\ writer = Cat(last.pre_writer, Take(last.pre_buf, last.out.n))
             /\ buf = last.chunk /\ len = last.l
             /\ lossy
    /\ lossy => IsSuffix(buf, sinceLoss)

\* C15 witness: the sink took all but one byte of a buffer that write then
\* replaced, and a later full flush left the sink short of the written bytes.
C15_Witness ==
    /\ prev.op = "write" /\ prev.ok /\ prev.calls # << >>
    /\ prev.out.n = BLen(prev.pre_buf) - 1 /\ prev.out.n > 0
    /\ last.op = "flush" /\ last.ok /\ last.out.n = BLen(last.pre_buf)
    /\ lossy
    /\ writer = Cat(Take(prev.pre_buf, prev.out.n), prev.chunk)
    /\ BLen(writer) = BLen(written) - 1

\* C16: dropping the writer makes no sink write, so the sink holds what it
\* held before the drop; with a sink accepting in full and no explicit
\* flush, that is the written bytes less the bytes buffered at the drop.
C16_NoFlushOnDrop ==
    dropped
        => /\ last.op = "drop"
           /\ last.calls = << >>
           /\ sinkCalls = last.pre_sinkCalls
           /\ writer = last.pre_writer
           /\ (sinkFull /\ flushes = 0)
                => Cat(writer, last.pre_buf) = written

\* C16 witness: dropped with bytes buffered after a write that flushed; the
\* sink has the flushed bytes and lacks the buffered ones.
C16_Witness ==
    /\ dropped /\ sinkFull /\ flushes = 0
    /\ last.pre_buf # << >> /\ writer # << >>
    /\ sinkCalls = 1
    /\ BLen(writer) + BLen(last.pre_buf) = BLen(written)

\* C17: with write calls only and a sink whose writes take everything or
\* fail, the bytes the sink received followed by the buffer are exactly the
\* chunks of the writes that returned Ok, in call order.
C17_Conservation ==
    (flushes = 0 /\ ~sinkShort /\ ~dropped)
        => Cat(writer, buf) = written

\* C17 witness: a write failed on a sink error and the next write flushed
\* the old bytes and stored its chunk.
C17_Witness ==
    /\ flushes = 0 /\ ~sinkShort /\ ~dropped
    /\ prev.op = "write" /\ ~prev.ok
    /\ last.op = "write" /\ last.ok
    /\ writer # << >> /\ buf # << >> /\ writer # buf
    /\ Cat(writer, buf) = written

\* C18: a buffer of 1,048,576 bytes or more is one chunk of that size,
\* stored whole, and the next write of any length, the empty chunk included,
\* passes that whole buffer to the sink and, when the sink write succeeds,
\* leaves the new chunk as the buffer (empty, with len() = 0, for the empty
\* chunk).
C18_OverThresholdOneWrite ==
    /\ (~dropped /\ len >= Capacity) => (buf \in Chunks /\ BLen(buf) = len)
    /\ (last.op = "write" /\ last.pre_len >= Capacity)
          => /\ last.calls = << last.pre_buf >>
             /\ last.out.ok => (last.ok /\ buf = last.chunk /\ len = last.l)
             /\ ~last.out.ok => (~last.ok /\ buf = last.pre_buf)

\* C18 witness: an empty chunk written on a buffer over the threshold: the
\* buffer went to the sink and the writer is empty.
C18_Witness ==
    /\ last.op = "write" /\ last.ok /\ last.chunk = << >>
    /\ last.pre_len > Capacity
    /\ last.calls = << last.pre_buf >>
    /\ writer = last.pre_buf
    /\ buf = << >> /\ len = 0

====
